---- MODULE Spec2Model ----
(***************************************************************************)
(* The session state core of the AI video editor client: the zustand store *)
(* of frontend/lib/store.ts (media library with per-entry undo/redo        *)
(* stacks, chat thread, playback state, auth session, project store) and   *)
(* the component handlers that drive it.                                   *)
(*                                                                         *)
(* Strings produced with Date.now() are modelled as <<prefix, now>> where   *)
(* now is the millisecond clock; two calls in the same millisecond get the *)
(* same string, as in the code.  Fields of MediaFile that no modelled      *)
(* handler reads or rewrites (type, uploadedAt, isAnalyzing) are left out. *)
(***************************************************************************)
EXTENDS Integers, Sequences, FiniteSets, TLC

\* ------------------------------------------------------------------ bounds
MaxEntries == 2
MaxVersions == 3
MaxMessages == 3
MaxNow == 1
MaxFileId == 2
MaxProjects == 2
MaxTasks == 2             \* calls in flight where calls overlap
MaxCalls == 1            \* project calls in flight where the session runs
MaxEditMessages == 4     \* messages of the thread where edit commands run
MaxLibMessages == 2      \* messages of the thread where the whole library API runs
MaxLibVersions == 2      \* versions of an entry where the whole library API runs
MaxTime == 1             \* positions of the player

\* --------------------------------------------------------------- constants
NULL == <<"null", 0>>
NoUrl == "none"
NoStatus == "none"
UploadUrls == {"a0"}
EditUrls == {"a1", "a2"}
Urls == UploadUrls \cup EditUrls
MediaTypes == {"video", "audio"}
Descriptions == {"", "desc"}
NoUser == "nouser"
NoToken == "notoken"
NoProject == 0
UserEmail == "u1"
UserToken == "t1"
NoFile == [id |-> NULL, filename |-> "", url |-> NoUrl, mediaType |-> "video",
           description |-> "", versionHistory |-> <<>>, redoHistory |-> <<>>]

VARIABLES
  mediaBin,        \* AppState.mediaBin: sequence of MediaFile records
  activeVideoId,   \* AppState.activeVideoId
  activeAudioId,   \* AppState.activeAudioId
  playbackState,   \* AppState.playbackState
  messages,        \* AppState.messages: sequence of ChatMessage records
  authStatus,      \* AppState.authStatus
  isAuthenticated, \* AppState.isAuthenticated
  user,            \* AppState.user (the email, NoUser for null)
  token,           \* AppState.token
  localStorage,    \* the browser's durable entries 'token' and 'userEmail'
  currentProject,  \* AppState.currentProject (the project's id, NoProject for null)
  projects,        \* AppState.projects (ids, in list order)
  isProjectLoading,\* AppState.isProjectLoading
  server,          \* the remote project store behind /api/projects
  tasks,           \* async calls suspended at an await, with their request
  now,             \* Date.now()
  nextFileId,      \* the next file_id the upload backend hands out
  lastOp           \* the operation that ran last, its arguments, whether it
                   \* passed its guard, and the entry it found before it ran

libVars == <<mediaBin, activeVideoId, activeAudioId>>
chatVars == <<messages>>
envVars == <<now, nextFileId>>
authVars == <<authStatus, isAuthenticated, user, token, localStorage>>
projVars == <<currentProject, projects, isProjectLoading>>
netVars == <<server, tasks>>
vars == <<mediaBin, activeVideoId, activeAudioId, playbackState, messages,
          authStatus, isAuthenticated, user, token, localStorage,
          currentProject, projects, isProjectLoading, server, tasks,
          now, nextFileId, lastOp>>

\* ----------------------------------------------------------------- helpers
Last(s) == s[Len(s)]

\* Array.prototype.find(f => f.id === id): index of the first match, 0 if none
FindIdx(bin, id) ==
  IF \E i \in 1..Len(bin) : bin[i].id = id
  THEN CHOOSE i \in 1..Len(bin) : bin[i].id = id /\ \A j \in 1..(i-1) : bin[j].id # id
  ELSE 0

Find(bin, id) == IF FindIdx(bin, id) = 0 THEN NoFile ELSE bin[FindIdx(bin, id)]

RECURSIVE Filter(_, _)
\* Array.prototype.filter(f => f.id !== id)
Filter(bin, id) ==
  IF bin = <<>> THEN <<>>
  ELSE IF Head(bin).id = id THEN Filter(Tail(bin), id)
       ELSE <<Head(bin)>> \o Filter(Tail(bin), id)

Ids(bin) == {bin[i].id : i \in 1..Len(bin)}

\* the undo and redo stacks of an entry
Stacks(file) == [versionHistory |-> file.versionHistory, redoHistory |-> file.redoHistory]
NoPre == [versionHistory |-> <<>>, redoHistory |-> <<>>]

Op(op, id, arg, done, pre) ==
  [op |-> op, id |-> id, arg |-> arg, done |-> done, pre |-> pre, pid |-> NoProject]

\* the same for an operation on a project
ProjectOp(op, pid, done) ==
  [op |-> op, id |-> NULL, arg |-> NoUrl, done |-> done, pre |-> NoPre, pid |-> pid]

\* ------------------------------------------------------------- ChatMessage
Msg(id, role, content, status, videoUrl, timestamp) ==
  [id |-> id, role |-> role, content |-> content, status |-> status,
   videoUrl |-> videoUrl, timestamp |-> timestamp]

\* the welcome message of logout and of an empty loaded chat history
WelcomeMessage == Msg(<<"init", "", 0>>, "assistant", "welcome", NoStatus, NoUrl, now)

\* ------------------------------------------------- JSON of a project's blobs
EmptyText == <<"text", <<>>>>

\* JSON.stringify(mediaBin): every modelled field is a string or string array
StringifyBin(bin) == <<"json", bin>>

\* JSON.stringify(messages): a Date becomes its ISO string
StringifyChat(msgs) ==
  <<"json", [i \in 1..Len(msgs) |-> [msgs[i] EXCEPT !.timestamp = <<"iso", @>>]]>>

\* JSON.parse(project.media_bin || '[]')
ParseBin(text) == IF text = EmptyText THEN <<>> ELSE text[2]

\* a parse of the chat that reads the timestamps in another time zone
ParseChatShiftsTime(text) ==
  IF text = EmptyText THEN <<>>
  ELSE [i \in 1..Len(text[2]) |-> [text[2][i] EXCEPT !.timestamp = @[2] + 1]]

\* JSON.parse(project.chat_history || '[]').map(timestamp: new Date(...))
ParseChat(text) ==
  IF text = EmptyText THEN <<>>
  ELSE [i \in 1..Len(text[2]) |-> [text[2][i] EXCEPT !.timestamp = @[2]]]

\* ------------------------------------------------------------- async calls
NoBody == [media_bin |-> EmptyText, chat_history |-> EmptyText]
\* the body { name } of a rename: it carries neither of the two blobs
NameBody == [media_bin |-> <<"absent", <<>>>>, chat_history |-> <<"absent", <<>>>>]
NoReq == [method |-> "none", pid |-> NoProject, body |-> NoBody]
Req(method, pid, body) == [method |-> method, pid |-> pid, body |-> body]
NoResp == [st |-> "sent", list |-> <<>>, pid |-> NoProject, body |-> NoBody]
Resp(st, list, pid, body) == [st |-> st, list |-> list, pid |-> pid, body |-> body]

\* a call suspended at `pc`, waiting for the response to `req`; `pid` is the
\* project a switchProject is loading, `from` the project that was current
\* when switchProject was called, `log` the requests the call has issued,
\* `list` the projects a handler of AppLayout has in its closure
\* `call` tells apart the calls in flight: two calls of one operation with
\* the same arguments are two calls
FreeCall(rest) ==
  CHOOSE k \in 0..Cardinality(rest) :
    /\ \A t \in rest : t.call # k
    /\ \A j \in 0..(k - 1) : \E t \in rest : t.call = j

\* a new call next to the calls `rest`
TaskIn(rest, kind, pc, pid, req, log) ==
  [kind |-> kind, pc |-> pc, pid |-> pid, req |-> req, resp |-> NoResp,
   log |-> Append(log, req), from |-> NoProject, mid |-> <<"none", "", 0>>,
   vid |-> NULL, list |-> <<>>, call |-> FreeCall(rest)]

Task(kind, pc, pid, req, log) == TaskIn(tasks, kind, pc, pid, req, log)

NoProjectRow ==
  [exists |-> FALSE, name |-> "none", media_bin |-> EmptyText, chat_history |-> EmptyText]

Init ==
  /\ mediaBin = <<>>
  /\ activeVideoId = NULL
  /\ activeAudioId = NULL
  /\ playbackState = [isPlaying |-> FALSE, currentTime |-> 0]
  /\ messages = <<>>
  /\ authStatus = "loading"
  /\ isAuthenticated = FALSE
  /\ user = NoUser
  /\ token = NoToken
  /\ localStorage \in [token : {NoToken, UserToken}, userEmail : {NoUser, UserEmail}]
  /\ currentProject = NoProject
  /\ projects = <<>>
  /\ isProjectLoading = FALSE
  /\ server = [next |-> 1, db |-> [p \in 1..MaxProjects |-> NoProjectRow]]
  /\ tasks = {}
  /\ now = 0
  /\ nextFileId = 1
  /\ lastOp = Op("init", NULL, NoUrl, TRUE, NoPre)

\* ------------------------------------------------------------ ProjectStore
\* store.ts saveCurrentProject, up to its await: the PUT it issues, if any
SaveIssues == currentProject # NoProject /\ user # NoUser

SaveRequest ==
  Req("PUT", currentProject,
      [media_bin |-> StringifyBin(mediaBin), chat_history |-> StringifyChat(messages)])

\* the same for the state (bin, msgs) a handler has just set
SaveRequestOf(bin, msgs) ==
  Req("PUT", currentProject,
      [media_bin |-> StringifyBin(bin), chat_history |-> StringifyChat(msgs)])

\* a save that waits for the save in flight
IssueSaveExclusive(bin, msgs) ==
  tasks' = IF SaveIssues /\ \A t \in tasks : t.kind # "save"
           THEN tasks \cup {Task("save", "put", NoProject, SaveRequestOf(bin, msgs), <<>>)}
           ELSE tasks

\* the call deleteMediaFile and clearChat end with: `await get().saveCurrentProject()`
IssueSave(bin, msgs) ==
  tasks' = IF SaveIssues
           THEN tasks \cup {Task("save", "put", NoProject, SaveRequestOf(bin, msgs), <<>>)}
           ELSE tasks

\* ------------------------------------------------------------ MediaLibrary
\* store.ts addMediaFile: the stored entry of a draft
NewFile(file) ==
  [id |-> file.id, filename |-> file.filename, url |-> file.url,
   mediaType |-> file.mediaType, description |-> file.description,
   versionHistory |-> <<file.url>>, redoHistory |-> <<>>]

\* The drafts the upload handlers pass to addMediaFile: a backend file_id for
\* an uploaded video or audio, `audio-${Date.now()}` for a local audio file.
UploadDrafts ==
  { [id |-> i, filename |-> "f0", url |-> u, mediaType |-> t, description |-> d] :
      i \in {<<"file", nextFileId>>}, u \in UploadUrls, t \in MediaTypes,
      d \in Descriptions }
  \cup
  { [id |-> <<"audio", now>>, filename |-> "f0", url |-> u, mediaType |-> "audio",
     description |-> "desc"] : u \in UploadUrls }

addMediaFile(file) ==
  /\ mediaBin' = Append(mediaBin, NewFile(file))
  /\ activeVideoId' = file.id
  /\ nextFileId' = IF file.id[1] = "file" THEN nextFileId + 1 ELSE nextFileId
  /\ lastOp' = Op("addMediaFile", file.id, file.url, TRUE, NoPre)
  /\ UNCHANGED <<activeAudioId, playbackState, messages, authVars, projVars, netVars, now>>

setActiveVideoId(id) ==
  /\ activeVideoId' = id
  /\ lastOp' = Op("setActiveVideoId", id, NoUrl, TRUE, NoPre)
  /\ UNCHANGED <<mediaBin, activeAudioId, playbackState, messages, authVars, projVars,
                 netVars, envVars>>

setActiveAudioId(id) ==
  /\ activeAudioId' = id
  /\ lastOp' = Op("setActiveAudioId", id, NoUrl, TRUE, NoPre)
  /\ UNCHANGED <<mediaBin, activeVideoId, playbackState, messages, authVars, projVars,
                 netVars, envVars>>

\* a guard that lets the only version of an entry be reverted
CanRevertOffByOne(bin, videoId) ==
  FindIdx(bin, videoId) # 0 /\ ~(Len(Find(bin, videoId).versionHistory) < 1)

\* revertToPreviousVersion: `!file || file.versionHistory.length <= 1` is false
CanRevert(bin, videoId) ==
  FindIdx(bin, videoId) # 0 /\ ~(Len(Find(bin, videoId).versionHistory) <= 1)

\* a revert that puts the undone version at the back of the redo stack
RevertBinBack(bin, videoId) ==
  LET file == Find(bin, videoId)
      lastVersion == file.versionHistory[Len(file.versionHistory)]
      newHistory == SubSeq(file.versionHistory, 1, Len(file.versionHistory) - 1)
      newRedoHistory == file.redoHistory \o <<lastVersion>>
  IN [i \in 1..Len(bin) |->
        IF bin[i].id = videoId
        THEN [bin[i] EXCEPT !.versionHistory = newHistory, !.redoHistory = newRedoHistory]
        ELSE bin[i]]

\* revertToPreviousVersion: newMediaBin
RevertBin(bin, videoId) ==
  LET file == Find(bin, videoId)
      lastVersion == file.versionHistory[Len(file.versionHistory)]
      newHistory == SubSeq(file.versionHistory, 1, Len(file.versionHistory) - 1)
      newRedoHistory == <<lastVersion>> \o file.redoHistory
  IN [i \in 1..Len(bin) |->
        IF bin[i].id = videoId
        THEN [bin[i] EXCEPT !.versionHistory = newHistory, !.redoHistory = newRedoHistory]
        ELSE bin[i]]

revertMessage ==
  Msg(<<"revert-", "", now>>, "assistant", "reverted", "completed", NoUrl, now)

\* a revert that reports in the chat even when its guard turns it away
revertAlwaysReports(videoId) ==
  /\ mediaBin' = IF CanRevert(mediaBin, videoId) THEN RevertBin(mediaBin, videoId)
                 ELSE mediaBin
  /\ messages' = Append(messages, revertMessage)
  /\ lastOp' = Op("revert", videoId, NoUrl, CanRevert(mediaBin, videoId),
                  Stacks(Find(mediaBin, videoId)))
  /\ UNCHANGED <<activeVideoId, activeAudioId, playbackState, authVars, projVars,
                 netVars, envVars>>

revertToPreviousVersion(videoId) ==
  /\ IF CanRevert(mediaBin, videoId)
     THEN /\ mediaBin' = RevertBin(mediaBin, videoId)
          /\ messages' = Append(messages, revertMessage)
     ELSE UNCHANGED <<mediaBin, messages>>
  /\ lastOp' = Op("revert", videoId, NoUrl, CanRevert(mediaBin, videoId),
                  Stacks(Find(mediaBin, videoId)))
  /\ UNCHANGED <<activeVideoId, activeAudioId, playbackState, authVars, projVars,
                 netVars, envVars>>

\* redoLastAction: `!file || file.redoHistory.length === 0` is false
CanRedo(bin, videoId) ==
  FindIdx(bin, videoId) # 0 /\ ~(Len(Find(bin, videoId).redoHistory) = 0)

\* redoLastAction: newMediaBin
RedoBin(bin, videoId) ==
  LET file == Find(bin, videoId)
      nextVersion == file.redoHistory[1]
      newRedoHistory == SubSeq(file.redoHistory, 2, Len(file.redoHistory))
      newHistory == file.versionHistory \o <<nextVersion>>
  IN [i \in 1..Len(bin) |->
        IF bin[i].id = videoId
        THEN [bin[i] EXCEPT !.versionHistory = newHistory, !.redoHistory = newRedoHistory]
        ELSE bin[i]]

redoMessage ==
  Msg(<<"redo-", "", now>>, "assistant", "redone", "completed", NoUrl, now)

redoLastAction(videoId) ==
  /\ IF CanRedo(mediaBin, videoId)
     THEN /\ mediaBin' = RedoBin(mediaBin, videoId)
          /\ messages' = Append(messages, redoMessage)
     ELSE UNCHANGED <<mediaBin, messages>>
  /\ lastOp' = Op("redo", videoId, NoUrl, CanRedo(mediaBin, videoId),
                  Stacks(Find(mediaBin, videoId)))
  /\ UNCHANGED <<activeVideoId, activeAudioId, playbackState, authVars, projVars,
                 netVars, envVars>>

\* deleteMediaFile: the new activeVideoId
NewActiveId(bin, active, id) ==
  IF active = id
  THEN (IF Len(Filter(bin, id)) > 0 THEN Filter(bin, id)[1].id ELSE NULL)
  ELSE active

\* a delete that saves the library before it removes the entry
deleteSavesFirst(id) ==
  /\ mediaBin' = Filter(mediaBin, id)
  /\ activeVideoId' = NewActiveId(mediaBin, activeVideoId, id)
  /\ IssueSave(mediaBin, messages)
  /\ lastOp' = Op("deleteMediaFile", id, NoUrl, TRUE, NoPre)
  /\ UNCHANGED <<activeAudioId, playbackState, messages, authVars, projVars, server,
                 envVars>>

deleteMediaFile(id) ==
  /\ mediaBin' = Filter(mediaBin, id)
  /\ activeVideoId' = NewActiveId(mediaBin, activeVideoId, id)
  /\ IssueSave(Filter(mediaBin, id), messages)
  /\ lastOp' = Op("deleteMediaFile", id, NoUrl, TRUE, NoPre)
  /\ UNCHANGED <<activeAudioId, playbackState, messages, authVars, projVars, server,
                 envVars>>

\* a new version that keeps the redo stack
AppendVersionBinKeepRedo(bin, videoId, newUrl) ==
  [i \in 1..Len(bin) |->
     IF bin[i].id = videoId
     THEN [bin[i] EXCEPT !.url = newUrl, !.versionHistory = Append(@, newUrl)]
     ELSE bin[i]]

\* the handleSuccessfulEdit that versions the edited entry: its newMediaBin
AppendVersionBin(bin, videoId, newUrl) ==
  [i \in 1..Len(bin) |->
     IF bin[i].id = videoId
     THEN [bin[i] EXCEPT !.url = newUrl,
                         !.versionHistory = Append(@, newUrl),
                         !.redoHistory = <<>>]
     ELSE bin[i]]

\* handleSuccessfulEdit: newMessages
ResolveMessages(msgs, newUrl, messageId, messageContent) ==
  [i \in 1..Len(msgs) |->
     IF msgs[i].id = messageId
     THEN [msgs[i] EXCEPT !.content = messageContent, !.status = "completed",
                          !.timestamp = now, !.videoUrl = newUrl]
     ELSE msgs[i]]

NoMessageId == <<"none", "", 0>>
PendingIds == {messages[i].id : i \in {j \in 1..Len(messages) : messages[j].status = "pending"}}

appendVersion(videoId, newUrl, messageId) ==
  /\ mediaBin' = AppendVersionBin(mediaBin, videoId, newUrl)
  /\ messages' = ResolveMessages(messages, newUrl, messageId, "final")
  /\ lastOp' = Op("appendVersion", videoId, newUrl, FindIdx(mediaBin, videoId) # 0,
                  Stacks(Find(mediaBin, videoId)))
  /\ UNCHANGED <<activeVideoId, activeAudioId, playbackState, authVars, projVars,
                 netVars, envVars>>

addEditedMediaToLibrary(url, filename, mediaType) ==
  /\ mediaBin' = Append(mediaBin,
       [id |-> <<"edited", now>>, filename |-> filename, url |-> url,
        mediaType |-> mediaType, description |-> "desc",
        versionHistory |-> <<url>>, redoHistory |-> <<>>])
  /\ lastOp' = Op("addEditedMediaToLibrary", <<"edited", now>>, url, TRUE,
                  NoPre)
  /\ UNCHANGED <<activeVideoId, activeAudioId, playbackState, messages, authVars,
                 projVars, netVars, envVars>>

renameMediaFile(id, newFilename) ==
  /\ mediaBin' = [i \in 1..Len(mediaBin) |->
       IF mediaBin[i].id = id THEN [mediaBin[i] EXCEPT !.filename = newFilename]
       ELSE mediaBin[i]]
  /\ lastOp' = Op("renameMediaFile", id, NoUrl, TRUE, NoPre)
  /\ UNCHANGED <<activeVideoId, activeAudioId, playbackState, messages, authVars,
                 projVars, netVars, envVars>>

updateMediaFileDescription(id, description) ==
  /\ mediaBin' = [i \in 1..Len(mediaBin) |->
       IF mediaBin[i].id = id THEN [mediaBin[i] EXCEPT !.description = description]
       ELSE mediaBin[i]]
  /\ lastOp' = Op("updateMediaFileDescription", id, NoUrl, TRUE, NoPre)
  /\ UNCHANGED <<activeVideoId, activeAudioId, playbackState, messages, authVars,
                 projVars, netVars, envVars>>

\* a preview that commits the url as a new version
setActiveVideoVersionCommits(videoId, url) ==
  /\ mediaBin' = AppendVersionBin(mediaBin, videoId, url)
  /\ playbackState' = [isPlaying |-> FALSE, currentTime |-> 0]
  /\ lastOp' = Op("setActiveVideoVersion", videoId, url, TRUE, NoPre)
  /\ UNCHANGED <<activeVideoId, activeAudioId, messages, authVars, projVars, netVars,
                 envVars>>

setActiveVideoVersion(videoId, url) ==
  /\ mediaBin' = [i \in 1..Len(mediaBin) |->
       IF mediaBin[i].id = videoId THEN [mediaBin[i] EXCEPT !.url = url]
       ELSE mediaBin[i]]
  /\ playbackState' = [isPlaying |-> FALSE, currentTime |-> 0]
  /\ lastOp' = Op("setActiveVideoVersion", videoId, url, TRUE, NoPre)
  /\ UNCHANGED <<activeVideoId, activeAudioId, messages, authVars, projVars, netVars,
                 envVars>>

\* store.ts setPlaybackState: the fields of `updates` over the old state
Merged(state, updates) ==
  [k \in DOMAIN state |-> IF k \in DOMAIN updates THEN updates[k] ELSE state[k]]

setPlaybackState(updates) ==
  /\ playbackState' = Merged(playbackState, updates)
  /\ lastOp' = Op("setPlaybackState", NULL, NoUrl, TRUE, NoPre)
  /\ UNCHANGED <<libVars, messages, authVars, projVars, netVars, envVars>>

\* MessageList: the url the main player shows
ActiveUrl ==
  IF FindIdx(mediaBin, activeVideoId) # 0 THEN Find(mediaBin, activeVideoId).url
  ELSE NoUrl

\* the library after setActiveVideoVersion(videoId, url)
PreviewBin(bin, videoId, url) ==
  [i \in 1..Len(bin) |->
     IF bin[i].id = videoId THEN [bin[i] EXCEPT !.url = url] ELSE bin[i]]

\* MessageList.handlePreviewPlay: another version is loaded first, then played
handlePreviewPlay(messageUrl) ==
  /\ IF ActiveUrl # messageUrl
     THEN /\ mediaBin' = PreviewBin(mediaBin, activeVideoId, messageUrl)
          /\ playbackState' = [isPlaying |-> TRUE, currentTime |-> 0]
     ELSE /\ UNCHANGED mediaBin
          /\ playbackState' = Merged(playbackState, [isPlaying |-> TRUE])
  /\ lastOp' = Op("handlePreviewPlay", activeVideoId, messageUrl, ActiveUrl # messageUrl,
                  NoPre)
  /\ UNCHANGED <<activeVideoId, activeAudioId, messages, authVars, projVars, netVars,
                 envVars>>

\* MessageList.handlePreviewSeek: another version is loaded first, then sought
handlePreviewSeek(messageUrl, newTime) ==
  /\ IF ActiveUrl # messageUrl
     THEN /\ mediaBin' = PreviewBin(mediaBin, activeVideoId, messageUrl)
          /\ playbackState' = [isPlaying |-> FALSE, currentTime |-> newTime]
     ELSE /\ UNCHANGED mediaBin
          /\ playbackState' = Merged(playbackState, [currentTime |-> newTime])
  /\ lastOp' = Op("handlePreviewSeek", activeVideoId, messageUrl, ActiveUrl # messageUrl,
                  NoPre)
  /\ UNCHANGED <<activeVideoId, activeAudioId, messages, authVars, projVars, netVars,
                 envVars>>

\* ------------------------------------------------------------- ChatThread
\* an addMessage that appends whatever it is given
AddMessageAlways(msgs, message) == Append(msgs, message)

\* store.ts addMessage
AddMessage(msgs, message) ==
  IF message.id[1] = "ai-desc-" /\ \E i \in 1..Len(msgs) : msgs[i].id = message.id
  THEN msgs
  ELSE Append(msgs, message)

\* MessageList: the analysis message of the active video
AnalysisMessage(video) ==
  Msg(<<"ai-desc-", video.id[1], video.id[2]>>, "assistant", "analysis", "completed",
      NoUrl, now)

\* MessageList's effect on [activeVideoId, mediaBin].  Its `messages` is the
\* one of the render that scheduled it, so hasAiDesc may be stale (FALSE
\* although the store already holds the message).
InjectAnalysis(stale) ==
  LET video == Find(mediaBin, activeVideoId)
      hasAiDesc == ~stale /\ \E i \in 1..Len(messages) :
                     messages[i].id = <<"ai-desc-", activeVideoId[1], activeVideoId[2]>>
  IN /\ activeVideoId # NULL
     /\ ~hasAiDesc
     /\ FindIdx(mediaBin, activeVideoId) # 0
     /\ video.description # ""
     /\ messages' = AddMessage(messages, AnalysisMessage(video))
     /\ lastOp' = Op("injectAnalysis", activeVideoId, NoUrl, TRUE, NoPre)
     /\ UNCHANGED <<libVars, playbackState, authVars, projVars, netVars, envVars>>

clearChat ==
  /\ messages' = <<>>
  /\ IssueSave(mediaBin, <<>>)
  /\ lastOp' = Op("clearChat", NULL, NoUrl, TRUE, NoPre)
  /\ UNCHANGED <<libVars, playbackState, authVars, projVars, server, envVars>>

\* time passes: Date.now() moves on
Tick ==
  /\ now' = now + 1
  /\ UNCHANGED <<libVars, playbackState, messages, authVars, projVars, netVars,
                 nextFileId, lastOp>>


\* store.ts updateMessage
UpdateMessage(msgs, id, content, status) ==
  [i \in 1..Len(msgs) |->
     IF msgs[i].id = id
     THEN [msgs[i] EXCEPT !.content = content, !.status = status, !.timestamp = now]
     ELSE msgs[i]]

\* CommandInput.handleSend up to its await: the user message, the pending
\* placeholder, and the request to /api/edit
handleSend ==
  /\ activeVideoId # NULL
  /\ messages' = AddMessage(
       AddMessage(messages,
                  Msg(<<"msg-user-", "", now>>, "user", "command", "completed", NoUrl, now)),
       Msg(<<"assistant-", "", now>>, "assistant", "processing", "pending", NoUrl, now))
  /\ tasks' = tasks \cup
       {[Task("edit", "fetch", NoProject, Req("EDIT", NoProject, NoBody), <<>>)
           EXCEPT !.mid = <<"assistant-", "", now>>, !.vid = activeVideoId]}
  /\ lastOp' = Op("handleSend", activeVideoId, NoUrl, TRUE, NoPre)
  /\ UNCHANGED <<libVars, playbackState, authVars, projVars, server, envVars>>

\* the continuation of a handleSend whose success also versions the edited
\* entry, as handleSuccessfulEdit once did
EditRespondedVersions(t, outcome, newUrl) ==
  /\ t.kind = "edit"
  /\ messages' = CASE outcome = "url" -> ResolveMessages(messages, newUrl, t.mid, "final")
                   [] outcome = "text" -> UpdateMessage(messages, t.mid, "final", "completed")
                   [] OTHER -> UpdateMessage(messages, t.mid, "apology", "error")
  /\ mediaBin' = IF outcome = "url" THEN AppendVersionBin(mediaBin, t.vid, newUrl)
                 ELSE mediaBin
  /\ tasks' = tasks \ {t}
  /\ lastOp' = Op("editResponded", t.vid, IF outcome = "url" THEN newUrl ELSE NoUrl,
                  outcome # "fail", NoPre)
  /\ UNCHANGED <<activeVideoId, activeAudioId, playbackState, authVars, projVars,
                 server, envVars>>

\* CommandInput.handleSend after its await.  outcome: "url" (a result with an
\* output_url), "text" (a result without), "fail" (not ok, or fetch threw)
EditResponded(t, outcome, newUrl) ==
  /\ t.kind = "edit"
  /\ messages' = CASE outcome = "url" -> ResolveMessages(messages, newUrl, t.mid, "final")
                   [] outcome = "text" -> UpdateMessage(messages, t.mid, "final", "completed")
                   [] OTHER -> UpdateMessage(messages, t.mid, "apology", "error")
  /\ tasks' = tasks \ {t}
  /\ lastOp' = Op("editResponded", t.vid, IF outcome = "url" THEN newUrl ELSE NoUrl,
                  outcome # "fail", NoPre)
  /\ UNCHANGED <<libVars, playbackState, authVars, projVars, server, envVars>>

\* ------------------------------------------------------------- AuthSession
login(email, tok) ==
  /\ localStorage' = [token |-> tok, userEmail |-> email]
  /\ isAuthenticated' = TRUE
  /\ user' = email
  /\ token' = tok
  /\ authStatus' = "authenticated"
  /\ lastOp' = Op("login", NULL, NoUrl, TRUE, NoPre)
  /\ UNCHANGED <<libVars, playbackState, messages, projVars, netVars, envVars>>

\* a logout that resets keys the store does not have and leaves the library
logoutKeepsLibrary ==
  /\ localStorage' = [token |-> NoToken, userEmail |-> NoUser]
  /\ isAuthenticated' = FALSE
  /\ user' = NoUser
  /\ token' = NoToken
  /\ authStatus' = "unauthenticated"
  /\ currentProject' = NoProject
  /\ projects' = <<>>
  /\ messages' = <<WelcomeMessage>>
  /\ lastOp' = [Op("logout", activeVideoId, NoUrl, TRUE, NoPre)
                  EXCEPT !.pid = currentProject]
  /\ UNCHANGED <<libVars, playbackState, isProjectLoading, netVars, envVars>>

logout ==
  /\ localStorage' = [token |-> NoToken, userEmail |-> NoUser]
  /\ isAuthenticated' = FALSE
  /\ user' = NoUser
  /\ token' = NoToken
  /\ authStatus' = "unauthenticated"
  /\ activeVideoId' = NULL
  /\ activeAudioId' = NULL
  /\ mediaBin' = <<>>
  /\ currentProject' = NoProject
  /\ projects' = <<>>
  /\ messages' = <<WelcomeMessage>>
  /\ lastOp' = [Op("logout", activeVideoId, NoUrl, TRUE, NoPre)
                  EXCEPT !.pid = currentProject]
  /\ UNCHANGED <<playbackState, isProjectLoading, netVars, envVars>>

\* AuthProvider's effect while authStatus is 'loading'
restoreFromDurableStorage ==
  /\ authStatus = "loading"
  /\ IF localStorage.token # NoToken /\ localStorage.userEmail # NoUser
     THEN /\ isAuthenticated' = TRUE
          /\ user' = localStorage.userEmail
          /\ token' = localStorage.token
          /\ authStatus' = "authenticated"
          /\ localStorage' = [token |-> localStorage.token,
                              userEmail |-> localStorage.userEmail]
     ELSE /\ authStatus' = "unauthenticated"
          /\ UNCHANGED <<isAuthenticated, user, token, localStorage>>
  /\ lastOp' = Op("restore", NULL, NoUrl, TRUE, NoPre)
  /\ UNCHANGED <<libVars, playbackState, messages, projVars, netVars, envVars>>

\* AuthProvider's effect when reading localStorage throws: the catch calls
\* logout(), whose first statement is localStorage.removeItem; when that
\* throws as well (`logoutThrows`) the exception leaves the effect and
\* nothing is set
restoreReadFails(logoutThrows) ==
  /\ authStatus = "loading"
  /\ IF logoutThrows
     THEN UNCHANGED <<libVars, messages, authVars, projVars>>
     ELSE /\ localStorage' = [token |-> NoToken, userEmail |-> NoUser]
          /\ isAuthenticated' = FALSE
          /\ user' = NoUser
          /\ token' = NoToken
          /\ authStatus' = "unauthenticated"
          /\ activeVideoId' = NULL
          /\ activeAudioId' = NULL
          /\ mediaBin' = <<>>
          /\ currentProject' = NoProject
          /\ projects' = <<>>
          /\ messages' = <<WelcomeMessage>>
          /\ UNCHANGED isProjectLoading
  /\ lastOp' = Op("restoreReadFails", NULL, NoUrl, ~logoutThrows, NoPre)
  /\ UNCHANGED <<playbackState, netVars, envVars>>

\* the page is loaded again: the store is created anew, the calls of the
\* old page are gone, localStorage and the backend stay
restart ==
  /\ mediaBin' = <<>>
  /\ activeVideoId' = NULL
  /\ activeAudioId' = NULL
  /\ playbackState' = [isPlaying |-> FALSE, currentTime |-> 0]
  /\ messages' = <<>>
  /\ authStatus' = "loading"
  /\ isAuthenticated' = FALSE
  /\ user' = NoUser
  /\ token' = NoToken
  /\ currentProject' = NoProject
  /\ projects' = <<>>
  /\ isProjectLoading' = FALSE
  /\ tasks' = {}
  /\ lastOp' = Op("restart", NULL, NoUrl, TRUE, NoPre)
  /\ UNCHANGED <<localStorage, server, envVars>>

\* ------------------------------------------------------------ ProjectStore
\* explicit save and the autosave interval: saveCurrentProject up to its await
saveCurrentProject ==
  /\ IssueSave(mediaBin, messages)
  /\ lastOp' = ProjectOp("saveCurrentProject", currentProject, SaveIssues)
  /\ UNCHANGED <<libVars, playbackState, messages, authVars, projVars, server, envVars>>

\* saveCurrentProject after its await
SaveResponded(t) ==
  /\ t.kind = "save"
  /\ t.resp.st # "sent"
  /\ tasks' = tasks \ {t}
  /\ lastOp' = ProjectOp("saveResponded", t.req.pid, t.resp.st = "ok")
  /\ UNCHANGED <<libVars, playbackState, messages, authVars, projVars, server, envVars>>

\* a switchProject that goes straight to the fetch of the project
SwitchStartNoSave(kind, projectId, rest, log, loading) ==
  /\ tasks' = rest \cup
       {[TaskIn(rest, kind, "switchLoad", projectId, Req("GET", projectId, NoBody), log)
           EXCEPT !.from = currentProject]}
  /\ isProjectLoading' = TRUE

\* switchProject up to its first await, called by `kind` when isProjectLoading
\* has the value `loading`
SwitchStart(kind, projectId, rest, log, loading) ==
  IF SaveIssues
  THEN /\ tasks' = rest \cup
            {[TaskIn(rest, kind, "switchSave", projectId, SaveRequest, log)
                EXCEPT !.from = currentProject]}
       /\ isProjectLoading' = loading
  ELSE /\ tasks' = rest \cup
            {[TaskIn(rest, kind, "switchLoad", projectId, Req("GET", projectId, NoBody), log)
                EXCEPT !.from = currentProject]}
       /\ isProjectLoading' = TRUE

switchProject(projectId) ==
  /\ IF user = NoUser
     THEN UNCHANGED <<tasks, isProjectLoading>>
     ELSE SwitchStart("switchProject", projectId, tasks, <<>>, isProjectLoading)
  /\ lastOp' = ProjectOp("switchProject", projectId, user # NoUser)
  /\ UNCHANGED <<libVars, playbackState, messages, authVars, currentProject, projects,
                 server, envVars>>

\* switchProject after `await saveCurrentProject()`
SwitchSaved(t) ==
  /\ t.pc = "switchSave"
  /\ t.resp.st # "sent"
  /\ isProjectLoading' = TRUE
  /\ tasks' = (tasks \ {t}) \cup
       {[TaskIn(tasks \ {t}, t.kind, "switchLoad", t.pid, Req("GET", t.pid, NoBody), t.log)
           EXCEPT !.from = t.from, !.call = t.call]}
  /\ lastOp' = ProjectOp("switchSaved", t.pid, TRUE)
  /\ UNCHANGED <<libVars, playbackState, messages, authVars, currentProject, projects,
                 server, envVars>>

\* loadSavedVideos up to its await, as the last step of loadProjects
SavedVideosStart(t, loading) ==
  IF user = NoUser
  THEN /\ tasks' = tasks \ {t}
       /\ isProjectLoading' = FALSE
  ELSE /\ tasks' = (tasks \ {t}) \cup
            {TaskIn(tasks \ {t}, t.kind, "savedVideos", NoProject,
                    Req("SAVED", NoProject, NoBody), t.log)}
       /\ isProjectLoading' = loading

\* switchProject after the fetch of the project
SwitchLoaded(t) ==
  /\ t.pc = "switchLoad"
  /\ t.resp.st # "sent"
  /\ IF t.resp.st = "ok"
     THEN /\ currentProject' = t.resp.pid
          /\ mediaBin' = ParseBin(t.resp.body.media_bin)
          /\ messages' = IF Len(ParseChat(t.resp.body.chat_history)) > 0
                         THEN ParseChat(t.resp.body.chat_history)
                         ELSE <<WelcomeMessage>>
          /\ activeVideoId' = NULL
          /\ activeAudioId' = NULL
     ELSE UNCHANGED <<currentProject, mediaBin, messages, activeVideoId, activeAudioId>>
  /\ IF t.kind = "loadProjects"
     THEN SavedVideosStart(t, IF t.resp.st = "notok" THEN isProjectLoading ELSE FALSE)
     ELSE /\ tasks' = tasks \ {t}
          /\ isProjectLoading' = IF t.resp.st = "notok" THEN isProjectLoading ELSE FALSE
  /\ lastOp' = ProjectOp("switchLoaded", t.pid, t.resp.st = "ok")
  /\ UNCHANGED <<playbackState, authVars, projects, server, envVars>>

\* loadProjects up to its first await (AppLayout runs it when `user` is set)
loadProjects ==
  /\ user # NoUser
  /\ isProjectLoading' = TRUE
  /\ tasks' = tasks \cup
       {Task("loadProjects", "list", NoProject, Req("LIST", NoProject, NoBody), <<>>)}
  /\ lastOp' = ProjectOp("loadProjects", NoProject, TRUE)
  /\ UNCHANGED <<libVars, playbackState, messages, authVars, currentProject, projects,
                 server, envVars>>

\* loadProjects from `set({ projects })` on
AfterProjectsSet(t, list, loading) ==
  IF currentProject = NoProject /\ Len(list) > 0
  THEN IF user = NoUser
       THEN SavedVideosStart(t, loading)
       ELSE SwitchStart(t.kind, list[1], tasks \ {t}, t.log, loading)
  ELSE SavedVideosStart(t, loading)

\* loadProjects after the fetch of the project list
ProjectsListed(t) ==
  /\ t.kind = "loadProjects"
  /\ t.pc = "list"
  /\ t.resp.st # "sent"
  /\ IF t.resp.st # "ok"
     THEN /\ tasks' = tasks \ {t}
          /\ isProjectLoading' = FALSE
          /\ UNCHANGED projects
     ELSE IF Len(t.resp.list) = 0
          THEN /\ UNCHANGED projects
               /\ IF user = NoUser
                  THEN /\ tasks' = tasks \ {t}
                       /\ isProjectLoading' = FALSE
                  ELSE /\ tasks' = (tasks \ {t}) \cup
                            {TaskIn(tasks \ {t}, t.kind, "create", NoProject,
                                  Req("POST", NoProject, NoBody), t.log)}
                       /\ isProjectLoading' = TRUE
          ELSE /\ projects' = t.resp.list
               /\ AfterProjectsSet(t, t.resp.list, isProjectLoading)
  /\ lastOp' = ProjectOp("projectsListed", NoProject, t.resp.st = "ok")
  /\ UNCHANGED <<libVars, playbackState, messages, authVars, currentProject, server,
                 envVars>>

\* AppLayout.handleCreateProject up to the await in createProject
handleCreateProject ==
  /\ IF user = NoUser
     THEN UNCHANGED <<tasks, isProjectLoading>>
     ELSE /\ isProjectLoading' = TRUE
          /\ tasks' = tasks \cup
               {Task("handleCreateProject", "create", NoProject,
                     Req("POST", NoProject, NoBody), <<>>)}
  /\ lastOp' = ProjectOp("handleCreateProject", NoProject, user # NoUser)
  /\ UNCHANGED <<libVars, playbackState, messages, authVars, currentProject, projects,
                 server, envVars>>

\* createProject after its fetch, and what its caller does with the project:
\* loadProjects makes it the whole list, handleCreateProject switches to it
ProjectCreated(t) ==
  /\ t.pc = "create"
  /\ t.resp.st # "sent"
  /\ IF t.resp.st # "ok"
     THEN /\ tasks' = tasks \ {t}
          /\ isProjectLoading' = FALSE
          /\ UNCHANGED projects
     ELSE IF t.kind = "loadProjects"
          THEN /\ projects' = <<t.resp.pid>>
               /\ AfterProjectsSet(t, <<t.resp.pid>>, FALSE)
          ELSE /\ projects' = Append(projects, t.resp.pid)
               /\ IF user = NoUser
                  THEN /\ tasks' = tasks \ {t}
                       /\ isProjectLoading' = FALSE
                  ELSE SwitchStart(t.kind, t.resp.pid, tasks \ {t}, t.log, FALSE)
  /\ lastOp' = ProjectOp("projectCreated", t.resp.pid, t.resp.st = "ok")
  /\ UNCHANGED <<libVars, playbackState, messages, authVars, currentProject, server,
                 envVars>>

\* AppLayout.handleRenameProject up to its await: the PUT of the new name.
\* The model keeps the ids of the projects only, so the update of the name
\* in `projects` and `currentProject` after the await changes no variable.
handleRenameProject(projectId) ==
  /\ tasks' = IF user = NoUser THEN tasks
              ELSE tasks \cup
                {[Task("handleRenameProject", "rename", projectId,
                       Req("PUT", projectId, NameBody), <<>>)
                    EXCEPT !.list = projects, !.from = currentProject]}
  /\ lastOp' = ProjectOp("handleRenameProject", projectId, user # NoUser)
  /\ UNCHANGED <<libVars, playbackState, messages, authVars, projVars, server, envVars>>

\* the projects of a list without the project `projectId`
Without(list, projectId) == SelectSeq(list, LAMBDA p : p # projectId)

\* AppLayout.handleRenameProject after its await: useAppStore.setState with
\* the `projects` and `currentProject` of the render the handler belongs to
RenameResponded(t) ==
  /\ t.pc = "rename"
  /\ t.resp.st # "sent"
  /\ tasks' = tasks \ {t}
  /\ IF t.resp.st = "error"
     THEN UNCHANGED <<projects, currentProject>>
     ELSE projects' = t.list /\ currentProject' = t.from
  /\ lastOp' = ProjectOp("renameResponded", t.pid, t.resp.st # "error")
  /\ UNCHANGED <<libVars, playbackState, messages, authVars, isProjectLoading, server,
                 envVars>>

\* store.ts deleteProject up to its await
deleteProject(projectId) ==
  /\ tasks' = IF user = NoUser THEN tasks
              ELSE tasks \cup {Task("deleteProject", "delete", projectId,
                                    Req("DELETE", projectId, NoBody), <<>>)}
  /\ lastOp' = ProjectOp("deleteProject", projectId, user # NoUser)
  /\ UNCHANGED <<libVars, playbackState, messages, authVars, projVars, server, envVars>>

\* store.ts deleteProject after its await
DeleteResponded(t) ==
  /\ t.kind = "deleteProject"
  /\ t.pc = "delete"
  /\ t.resp.st # "sent"
  /\ tasks' = tasks \ {t}
  /\ IF t.resp.st = "ok"
     THEN /\ projects' = Without(projects, t.pid)
          /\ currentProject' = IF currentProject = t.pid THEN NoProject
                                ELSE currentProject
     ELSE UNCHANGED <<projects, currentProject>>
  /\ lastOp' = ProjectOp("deleteResponded", t.pid, t.resp.st = "ok")
  /\ UNCHANGED <<libVars, playbackState, messages, authVars, isProjectLoading, server,
                 envVars>>

\* AppLayout.handleDeleteProject up to its await (the user has confirmed)
handleDeleteProject(projectId) ==
  /\ tasks' = IF user = NoUser THEN tasks
              ELSE tasks \cup
                {[Task("handleDeleteProject", "delete", projectId,
                       Req("DELETE", projectId, NoBody), <<>>)
                    EXCEPT !.list = projects, !.from = currentProject]}
  /\ lastOp' = ProjectOp("handleDeleteProject", projectId, user # NoUser)
  /\ UNCHANGED <<libVars, playbackState, messages, authVars, projVars, server, envVars>>

\* AppLayout.handleDeleteProject after its await: the list of its closure
\* without the project, then a switch to the first project left or to a new one
HandleDeleteResponded(t) ==
  /\ t.kind = "handleDeleteProject"
  /\ t.pc = "delete"
  /\ t.resp.st # "sent"
  /\ IF t.resp.st # "ok"
     THEN /\ tasks' = tasks \ {t}
          /\ UNCHANGED <<projects, isProjectLoading>>
     ELSE /\ projects' = Without(t.list, t.pid)
          /\ IF t.from # t.pid \/ user = NoUser
             THEN /\ tasks' = tasks \ {t}
                  /\ UNCHANGED isProjectLoading
             ELSE IF Len(Without(t.list, t.pid)) > 0
                  THEN SwitchStart(t.kind, Without(t.list, t.pid)[1], tasks \ {t},
                                   t.log, isProjectLoading)
                  ELSE /\ tasks' = (tasks \ {t}) \cup
                            {TaskIn(tasks \ {t}, t.kind, "create", NoProject,
                                  Req("POST", NoProject, NoBody), t.log)}
                       /\ isProjectLoading' = TRUE
  /\ lastOp' = ProjectOp("handleDeleteResponded", t.pid, t.resp.st = "ok")
  /\ UNCHANGED <<libVars, playbackState, messages, authVars, currentProject, server,
                 envVars>>

\* loadProjects after `await get().loadSavedVideos()`, and its finally block
SavedVideosLoaded(t) ==
  /\ t.pc = "savedVideos"
  /\ t.resp.st # "sent"
  /\ tasks' = tasks \ {t}
  /\ isProjectLoading' = FALSE
  /\ lastOp' = ProjectOp("savedVideosLoaded", NoProject, t.resp.st = "ok")
  /\ UNCHANGED <<libVars, playbackState, messages, authVars, currentProject, projects,
                 server, envVars>>

\* ---------------------------------------------------- the remote project store
ExistingProjects == SelectSeq([p \in 1..MaxProjects |-> p], LAMBDA p : server.db[p].exists)

\* the backend's answer to a request, and what the request does to its store
ServerAnswer(req) ==
  CASE req.method = "GET" ->
         IF server.db[req.pid].exists
         THEN Resp("ok", <<>>, req.pid,
                   [media_bin |-> server.db[req.pid].media_bin,
                    chat_history |-> server.db[req.pid].chat_history])
         ELSE Resp("notok", <<>>, NoProject, NoBody)
    [] req.method = "PUT" ->
         IF server.db[req.pid].exists
         THEN Resp("ok", <<>>, req.pid, NoBody)
         ELSE Resp("notok", <<>>, NoProject, NoBody)
    [] req.method = "DELETE" ->
         IF server.db[req.pid].exists
         THEN Resp("ok", <<>>, req.pid, NoBody)
         ELSE Resp("notok", <<>>, NoProject, NoBody)
    [] req.method = "LIST" -> Resp("ok", ExistingProjects, NoProject, NoBody)
    [] req.method = "POST" ->
         IF server.next <= MaxProjects
         THEN Resp("ok", <<>>, server.next, NoBody)
         ELSE Resp("notok", <<>>, NoProject, NoBody)
    [] OTHER -> Resp("ok", <<>>, NoProject, NoBody)

ServerAfter(req) ==
  CASE req.method = "PUT" /\ server.db[req.pid].exists /\ req.body = NameBody ->
         [server EXCEPT !.db[req.pid].name = "n1"]
    [] req.method = "PUT" /\ server.db[req.pid].exists /\ req.body # NameBody ->
         [server EXCEPT !.db[req.pid].media_bin = req.body.media_bin,
                        !.db[req.pid].chat_history = req.body.chat_history]
    [] req.method = "DELETE" /\ server.db[req.pid].exists ->
         [server EXCEPT !.db[req.pid] = NoProjectRow]
    [] req.method = "POST" /\ server.next <= MaxProjects ->
         [next |-> server.next + 1,
          db |-> [server.db EXCEPT ![server.next] =
                    [exists |-> TRUE, name |-> "n0", media_bin |-> EmptyText,
                     chat_history |-> EmptyText]]]
    [] OTHER -> server

\* the backend handles the request of a suspended call
ServerHandles(t) ==
  /\ t.resp.st = "sent"
  /\ t.kind # "edit"
  /\ server' = ServerAfter(t.req)
  /\ tasks' = (tasks \ {t}) \cup {[t EXCEPT !.resp = ServerAnswer(t.req)]}
  /\ UNCHANGED <<libVars, playbackState, messages, authVars, projVars, envVars, lastOp>>

\* the request of a suspended call is lost or refused: fetch rejects ("error")
\* or resolves with a response that is not ok ("notok")
RequestFails(t, st) ==
  /\ t.resp.st = "sent"
  /\ t.kind # "edit"
  /\ tasks' = (tasks \ {t}) \cup {[t EXCEPT !.resp = Resp(st, <<>>, NoProject, NoBody)]}
  /\ UNCHANGED <<libVars, playbackState, messages, authVars, projVars, server, envVars,
                 lastOp>>


\* ----------------------------------------------------------- specifications
UnknownId == <<"file", 0>>

\* The version stacks: uploads, promotions, new versions, revert, redo and
\* previews on up to MaxEntries entries with up to MaxVersions versions each.
NextVersions ==
  \/ /\ Len(mediaBin) < MaxEntries
     /\ nextFileId <= MaxFileId
     /\ addMediaFile([id |-> <<"file", nextFileId>>, filename |-> "f0", url |-> "a0",
                      mediaType |-> "video", description |-> "desc"])
  \/ /\ Len(mediaBin) < MaxEntries
     /\ addEditedMediaToLibrary("a1", "f0", "video")
  \/ \E id \in Ids(mediaBin), u \in EditUrls :
       /\ Len(Find(mediaBin, id).versionHistory) < MaxVersions
       /\ appendVersion(id, u, NoMessageId)
  \/ \E id \in Ids(mediaBin) \cup {UnknownId} :
       /\ Len(messages) < MaxMessages
       /\ revertToPreviousVersion(id)
  \/ \E id \in Ids(mediaBin) \cup {UnknownId} :
       /\ Len(messages) < MaxMessages
       /\ redoLastAction(id)
  \/ \E u \in Urls :
       /\ activeVideoId # NULL
       /\ setActiveVideoVersion(activeVideoId, u)
  \/ \E id \in Ids(mediaBin) : deleteMediaFile(id)
  \/ clearChat

InitLoggedOut ==
  /\ Init
  /\ localStorage = [token |-> NoToken, userEmail |-> NoUser]

SpecVersions == InitLoggedOut /\ [][NextVersions]_vars

\* ------------------------------------------------------- the version stacks
\* every variable of the program (lastOp only records what ran)
progVars == <<mediaBin, activeVideoId, activeAudioId, playbackState, messages,
              authStatus, isAuthenticated, user, token, localStorage,
              currentProject, projects, isProjectLoading, server, tasks,
              now, nextFileId>>

\* the entries an operation on `id` acts on
Targets(bin, id) == {i \in 1..Len(bin) : bin[i].id = id}

\* C1: right after addEntry, appendVersion, revert or redo has completed on an
\* entry, the entry's url is the last element of its versionHistory.
C1_UrlIsLastVersion ==
  (lastOp.done /\ lastOp.op \in {"addMediaFile", "appendVersion", "revert", "redo"})
    => \A i \in Targets(mediaBin, lastOp.id) :
         mediaBin[i].url = Last(mediaBin[i].versionHistory)

RECURSIVE RevertTimes(_, _, _)
RevertTimes(bin, id, k) ==
  IF k = 0 THEN bin ELSE RevertTimes(RevertBin(bin, id), id, k - 1)

RECURSIVE RedoTimes(_, _, _)
RedoTimes(bin, id, k) ==
  IF k = 0 THEN bin ELSE RedoTimes(RedoBin(bin, id), id, k - 1)

\* k reverts then k redos of the entry give back both of its stacks
C4_KFold ==
  \A id \in Ids(mediaBin) :
    \A k \in 1..(Len(Find(mediaBin, id).versionHistory) - 1) :
      /\ \A j \in 0..(k - 1) : CanRevert(RevertTimes(mediaBin, id, j), id)
      /\ \A j \in 0..(k - 1) :
           CanRedo(RedoTimes(RevertTimes(mediaBin, id, k), id, j), id)
      /\ Stacks(Find(RedoTimes(RevertTimes(mediaBin, id, k), id, k), id))
           = Stacks(Find(mediaBin, id))

\* a redo that directly follows an applied revert of the same entry restores
\* the stacks the entry had before the revert
C4_Step ==
  (lastOp.op = "revert" /\ lastOp.done /\ lastOp'.op = "redo" /\ lastOp'.id = lastOp.id)
    => /\ lastOp'.done
       /\ Stacks(Find(mediaBin', lastOp.id)) = lastOp.pre

\* C4: a revert immediately followed by a redo leaves versionHistory and
\* redoHistory as they were before the revert, and so do k reverts followed by
\* k redos for every k below the length of versionHistory.
C4_RevertRedoRoundTrip == []C4_KFold /\ [][C4_Step]_vars

\* a redo has just restored what the revert before it had undone
C4_Witness ==
  /\ lastOp.op = "redo" /\ lastOp.done
  /\ Len(messages) >= 2
  /\ messages[Len(messages) - 1].content = "reverted"
  /\ messages[Len(messages)].content = "redone"
  /\ Len(Find(mediaBin, lastOp.id).versionHistory) = MaxVersions

\* C5: appendVersion(id, newUrl) on an existing entry makes versionHistory the
\* old versionHistory followed by newUrl, sets url to newUrl and empties
\* redoHistory.
AppendVersionStep ==
  lastOp'.op = "appendVersion"
    => /\ Len(mediaBin') = Len(mediaBin)
       /\ \A i \in Targets(mediaBin, lastOp'.id) :
            /\ mediaBin'[i].versionHistory =
                 Append(mediaBin[i].versionHistory, lastOp'.arg)
            /\ mediaBin'[i].url = lastOp'.arg
            /\ mediaBin'[i].redoHistory = <<>>

GuardedNoOp ==
  \/ lastOp'.op = "revert"
       /\ (FindIdx(mediaBin, lastOp'.id) = 0
            \/ Len(Find(mediaBin, lastOp'.id).versionHistory) = 1)
  \/ lastOp'.op = "redo"
       /\ (FindIdx(mediaBin, lastOp'.id) = 0
            \/ Find(mediaBin, lastOp'.id).redoHistory = <<>>)

\* C6: revert on an entry with one version or an unknown id, and redo on an
\* entry with an empty redoHistory or an unknown id, change nothing: library,
\* selection and chat thread are as before and no message is appended.
C6_GuardedNoOps == [][GuardedNoOp => UNCHANGED progVars]_vars

\* a revert was called on an entry of the library that has a single version
C6_Witness ==
  /\ lastOp.op = "revert" /\ ~lastOp.done
  /\ FindIdx(mediaBin, lastOp.id) # 0
  /\ Len(Find(mediaBin, lastOp.id).versionHistory) = 1
  /\ Len(mediaBin) = MaxEntries

\* the stacks of the entries of a library, in order
AllStacks(bin) == [i \in 1..Len(bin) |-> Stacks(bin[i])]

\* a preview changes the url of the entry with the id and nothing else of
\* the library, the selection or the chat, and revert and redo do to the
\* stacks after it what they do without it
PreviewStep ==
  lastOp'.op = "setActiveVideoVersion"
    => /\ Len(mediaBin') = Len(mediaBin)
       /\ \A i \in 1..Len(mediaBin) :
            mediaBin'[i] = IF mediaBin[i].id = lastOp'.id
                           THEN [mediaBin[i] EXCEPT !.url = lastOp'.arg]
                           ELSE mediaBin[i]
       /\ UNCHANGED <<activeVideoId, activeAudioId, messages>>
       /\ \A id \in Ids(mediaBin) :
            /\ CanRevert(mediaBin', id) = CanRevert(mediaBin, id)
            /\ CanRedo(mediaBin', id) = CanRedo(mediaBin, id)
            /\ CanRevert(mediaBin, id)
                 => AllStacks(RevertBin(mediaBin', id)) = AllStacks(RevertBin(mediaBin, id))
            /\ CanRedo(mediaBin, id)
                 => AllStacks(RedoBin(mediaBin', id)) = AllStacks(RedoBin(mediaBin, id))

\* C22: setActiveVideoVersion(id, url) changes only the url of the entry
\* with that id: both stacks of every entry, the selection and the chat stay,
\* and a later revert or redo works on the stacks as if nothing was previewed.
C22_PreviewFrame == [][PreviewStep]_vars

\* an older version of an entry with something to redo is being previewed
C22_Witness ==
  /\ lastOp.op = "setActiveVideoVersion"
  /\ FindIdx(mediaBin, lastOp.id) # 0
  /\ LET file == Find(mediaBin, lastOp.id)
     IN /\ file.url = lastOp.arg
        /\ Len(file.versionHistory) >= 2
        /\ Len(file.redoHistory) >= 1
        /\ file.url # Last(file.versionHistory)
        /\ file.url = file.versionHistory[1]

\* ------------------------------------------------ the library and selection
\* Every operation of the library on video and audio entries.
NextLibrary ==
  \/ \E t \in MediaTypes :
       /\ Len(mediaBin) < MaxEntries
       /\ nextFileId <= MaxFileId
       /\ addMediaFile([id |-> <<"file", nextFileId>>, filename |-> "f0", url |-> "a0",
                        mediaType |-> t, description |-> ""])
  \/ /\ Len(mediaBin) < MaxEntries
     /\ addEditedMediaToLibrary("a1", "f0", "video")
  \/ \E id \in Ids(mediaBin) \cup {NULL} : setActiveVideoId(id)
  \/ \E id \in Ids(mediaBin) \cup {NULL} : setActiveAudioId(id)
  \/ \E id \in Ids(mediaBin) :
       /\ Len(Find(mediaBin, id).versionHistory) < MaxLibVersions
       /\ appendVersion(id, "a1", NoMessageId)
  \/ \E id \in Ids(mediaBin) \cup {UnknownId} :
       /\ Len(messages) < MaxLibMessages
       /\ revertToPreviousVersion(id)
  \/ \E id \in Ids(mediaBin) \cup {UnknownId} :
       /\ Len(messages) < MaxLibMessages
       /\ redoLastAction(id)
  \/ /\ activeVideoId # NULL
     /\ setActiveVideoVersion(activeVideoId, "a1")
  \/ \E id \in Ids(mediaBin) : renameMediaFile(id, "f1")
  \/ \E id \in Ids(mediaBin) : updateMediaFileDescription(id, "desc")
  \/ \E id \in Ids(mediaBin) \cup {UnknownId} : deleteMediaFile(id)

SpecLibrary == InitLoggedOut /\ [][NextLibrary]_vars

\* C3: every entry of the library has at least one version, whatever
\* sequence of addEntry, promotion, appendVersion, revert, redo, setPreviewUrl,
\* rename, setDescription and deleteEntry has run.
C3_VersionHistoryNonEmpty ==
  \A i \in 1..Len(mediaBin) : Len(mediaBin[i].versionHistory) >= 1

\* a revert has taken an entry down to its first version
C3_Witness ==
  /\ lastOp.op = "revert" /\ lastOp.done
  /\ \E i \in Targets(mediaBin, lastOp.id) :
       Len(mediaBin[i].versionHistory) = 1 /\ mediaBin[i].redoHistory # <<>>

\* the first entry of a kind, as the selection for that kind
FirstOfKind(bin, kind) ==
  IF \E i \in 1..Len(bin) : bin[i].mediaType = kind
  THEN bin[CHOOSE i \in 1..Len(bin) :
             /\ bin[i].mediaType = kind
             /\ \A j \in 1..(i - 1) : bin[j].mediaType # kind].id
  ELSE NULL

DeleteSelects ==
  lastOp'.op = "deleteMediaFile"
    => LET id == lastOp'.id
           kind == Find(mediaBin, id).mediaType
       IN /\ (FindIdx(mediaBin, id) # 0 /\ kind = "video" /\ activeVideoId = id)
               => activeVideoId' = FirstOfKind(mediaBin', "video")
          /\ (FindIdx(mediaBin, id) # 0 /\ kind = "audio" /\ activeAudioId = id)
               => activeAudioId' = FirstOfKind(mediaBin', "audio")
          /\ activeVideoId # id => activeVideoId' = activeVideoId
          /\ activeAudioId # id => activeAudioId' = activeAudioId

\* C7: deleteEntry of the entry that is active for its kind selects the first
\* remaining entry of the same kind, or nothing when none remains; deleteEntry
\* of an entry that is not active leaves the selection as it was.
C7_DeleteSelectsSameKind == [][DeleteSelects]_vars

AddEntryStep ==
  (lastOp'.op = "addMediaFile" /\ Len(mediaBin') = Len(mediaBin) + 1)
    => LET entry == Last(mediaBin')
       IN /\ entry.id = lastOp'.id
          /\ entry.versionHistory = <<lastOp'.arg>>
          /\ entry.url = lastOp'.arg
          /\ entry.redoHistory = <<>>
          /\ entry.mediaType = "video"
               => activeVideoId' = entry.id /\ activeAudioId' = activeAudioId
          /\ entry.mediaType = "audio"
               => activeAudioId' = entry.id /\ activeVideoId' = activeVideoId

\* C15: addEntry stores the entry with versionHistory = [url] and an empty
\* redoHistory and makes it the selection of its own kind: a video becomes
\* the active video, an audio the active audio, and the selection of the
\* other kind stays as it was.
C15_AddEntrySelectsOwnKind == [][AddEntryStep]_vars

\* the pointer is null or the id of an entry of the library of kind `kind`
PointsTo(pointer, kind) ==
  \/ pointer = NULL
  \/ \E i \in 1..Len(mediaBin) : mediaBin[i].id = pointer /\ mediaBin[i].mediaType = kind

\* C29: the selection pointers are valid in every reachable state:
\* activeVideoId is null or the id of a video entry present in the library,
\* activeAudioId is null or the id of an audio entry present in the library.
C29_PointersValid == PointsTo(activeVideoId, "video") /\ PointsTo(activeAudioId, "audio")

\* the part of C29 that holds: activeVideoId never refers to an entry that
\* is not in the library
C29_VideoPointerPresent == activeVideoId = NULL \/ activeVideoId \in Ids(mediaBin)

\* ------------------------------------------------------------------
\* entry ids: uploads and promotions next to the operations addressed by
\* id, with a clock that may or may not advance between two promotions
\* ------------------------------------------------------------------
NextIds ==
  \/ /\ Len(mediaBin) < MaxEntries
     /\ nextFileId <= MaxFileId
     /\ addMediaFile([id |-> <<"file", nextFileId>>, filename |-> "f0", url |-> "a0",
                      mediaType |-> "video", description |-> ""])
  \/ /\ Len(mediaBin) < MaxEntries
     /\ addEditedMediaToLibrary("a1", "f0", "video")
  \/ /\ now < MaxNow
     /\ Tick
  \/ \E id \in Ids(mediaBin) :
       /\ Len(Find(mediaBin, id).versionHistory) < MaxLibVersions
       /\ appendVersion(id, "a2", NoMessageId)
  \/ \E id \in Ids(mediaBin) :
       /\ Len(messages) < MaxLibMessages
       /\ revertToPreviousVersion(id)
  \/ \E id \in Ids(mediaBin) :
       /\ Len(messages) < MaxLibMessages
       /\ redoLastAction(id)
  \/ \E id \in Ids(mediaBin) : renameMediaFile(id, "f1")
  \/ \E id \in Ids(mediaBin) : updateMediaFileDescription(id, "desc")
  \/ \E id \in Ids(mediaBin) : deleteMediaFile(id)

SpecIds == InitLoggedOut /\ [][NextIds]_vars

\* no two entries of the library have the same id
UniqueIds ==
  \A i, j \in 1..Len(mediaBin) : mediaBin[i].id = mediaBin[j].id => i = j

AddressedOps ==
  {"appendVersion", "revert", "redo", "renameMediaFile", "updateMediaFileDescription"}

\* an operation addressed by id changes at most one entry, and a deletion
\* removes at most one
OneEntryChanged ==
  /\ lastOp'.op \in AddressedOps
       => /\ Len(mediaBin') = Len(mediaBin)
          /\ Cardinality({i \in 1..Len(mediaBin) : mediaBin'[i] # mediaBin[i]}) <= 1
  /\ lastOp'.op = "deleteMediaFile" => Len(mediaBin') >= Len(mediaBin) - 1

\* C30: entry ids are unique in the library after any sequence of uploads,
\* promotions and deletions, so that an operation addressed by id changes
\* at most one entry.
C30_UniqueIds == []UniqueIds /\ [][OneEntryChanged]_vars

\* the part of C30 that holds: where the ids are unique, an operation
\* addressed by id changes at most one entry
C30_OneEntryWhereUnique == [][UniqueIds => OneEntryChanged]_vars

\* ---------------------------------------------------------- the chat thread
\* Uploads, versions, revert and redo, the analysis effect, edit commands and
\* the clock, on a thread of up to MaxMessages messages.
NextChat ==
  \/ \E d \in Descriptions :
       /\ Len(mediaBin) < MaxEntries
       /\ nextFileId <= MaxFileId
       /\ addMediaFile([id |-> <<"file", nextFileId>>, filename |-> "f0", url |-> "a0",
                        mediaType |-> "video", description |-> d])
  \/ \E id \in Ids(mediaBin) : setActiveVideoId(id)
  \/ \E id \in Ids(mediaBin) :
       /\ Len(Find(mediaBin, id).versionHistory) < MaxLibVersions
       /\ appendVersion(id, "a1", NoMessageId)
  \/ \E id \in Ids(mediaBin) :
       /\ Len(messages) < MaxMessages
       /\ revertToPreviousVersion(id)
  \/ \E id \in Ids(mediaBin) :
       /\ Len(messages) < MaxMessages
       /\ redoLastAction(id)
  \/ \E stale \in BOOLEAN :
       /\ Len(messages) < MaxMessages
       /\ InjectAnalysis(stale)
  \/ /\ Len(messages) + 2 <= MaxMessages
     /\ \A t \in tasks : t.kind # "edit"
     /\ handleSend
  \/ \E t \in tasks, outcome \in {"url", "text", "fail"} : EditResponded(t, outcome, "a1")
  \/ clearChat
  \/ /\ now < MaxNow
     /\ Tick

SpecChat == InitLoggedOut /\ [][NextChat]_vars

\* the messages of the thread that carry the id `id`
WithId(msgs, id) == {i \in 1..Len(msgs) : msgs[i].id = id}

AnalysisId(id) == <<"ai-desc-", id[1], id[2]>>

InjectionStep ==
  lastOp'.op = "injectAnalysis"
    => /\ Cardinality(WithId(messages', AnalysisId(lastOp'.id))) = 1
       /\ SubSeq(messages', 1, Len(messages)) = messages
       /\ WithId(messages, AnalysisId(lastOp'.id)) # {} => messages' = messages

\* C9: however often the analysis message of an entry is injected, the
\* thread holds exactly one message with its id, and an injection after the
\* first changes no message and no position.
C9_AnalysisInjectedOnce == [][InjectionStep]_vars

\* the analysis message was injected again after another message had
\* followed it
C9_Witness ==
  /\ lastOp.op = "injectAnalysis"
  /\ Len(messages) >= 2
  /\ messages[1].id = AnalysisId(lastOp.id)
  /\ messages[Len(messages)].id[1] # "ai-desc-"

\* C10: no two messages of the thread have the same id, whatever was
\* appended: analysis messages, the messages of revert and redo, the user
\* message and the placeholder of an edit command.
C10_MessageIdsUnique ==
  \A i, j \in 1..Len(messages) : messages[i].id = messages[j].id => i = j

\* ------------------------------------------------- the session and projects
\* Sign-in, sign-out, the project operations with their requests in flight
\* (at most MaxCalls at a time), and a library of one entry to save.
NextProject ==
  \/ restoreFromDurableStorage
  \/ /\ user = NoUser
     /\ login(UserEmail, UserToken)
  \/ logout
  \/ /\ Cardinality(tasks) < MaxCalls
     /\ loadProjects
  \/ /\ Cardinality(tasks) < MaxCalls
     /\ handleCreateProject
  \/ \E i \in 1..Len(projects) :
       /\ Cardinality(tasks) < MaxCalls
       /\ switchProject(projects[i])
  \/ /\ Cardinality(tasks) < MaxCalls
     /\ saveCurrentProject
  \/ /\ Len(mediaBin) < 1
     /\ nextFileId <= MaxFileId
     /\ addMediaFile([id |-> <<"file", nextFileId>>, filename |-> "f0", url |-> "a0",
                      mediaType |-> "video", description |-> "desc"])
  \/ \E id \in Ids(mediaBin) :
       /\ Cardinality(tasks) < MaxCalls
       /\ deleteMediaFile(id)
  \/ \E t \in tasks : ServerHandles(t)
  \/ \E t \in tasks, st \in {"notok", "error"} : RequestFails(t, st)
  \/ \E t \in tasks : SaveResponded(t)
  \/ \E t \in tasks : SwitchSaved(t)
  \/ \E t \in tasks : SwitchLoaded(t)
  \/ \E t \in tasks : ProjectsListed(t)
  \/ \E t \in tasks : ProjectCreated(t)
  \/ \E t \in tasks : SavedVideosLoaded(t)

SpecProject == Init /\ [][NextProject]_vars

\* the positions of the requests with method `m` in the log of a call
Issued(t, m) == {i \in 1..Len(t.log) : t.log[i].method = m}

\* a call of switchProject made while a project was current has issued no
\* load request that its save request for that project does not precede
SaveBeforeLoad ==
  \A t \in tasks :
    t.from # NoProject
      => \A i \in Issued(t, "GET") :
           \E j \in Issued(t, "PUT") : j < i /\ t.log[j].pid = t.from

\* switchProject called while a project is current issues, in the call, the
\* save request for that project with the library and chat of that moment
SwitchSavesFirst ==
  (lastOp'.op = "switchProject" /\ lastOp'.done /\ currentProject # NoProject)
    => \E t \in tasks' :
         /\ t.kind = "switchProject" /\ t.pc = "switchSave"
         /\ t.pid = lastOp'.pid /\ t.from = currentProject
         /\ t.req = Req("PUT", currentProject,
                         [media_bin |-> StringifyBin(mediaBin),
                          chat_history |-> StringifyChat(messages)])
         /\ t.log = <<t.req>>

\* C2: switchProject(B) while project A is current issues the save request
\* for A, with A's library and chat as they are at the call, strictly before
\* the load request for B; no load request for B is issued without the save
\* request for A before it in the same call.
C2_SaveBeforeLoad == []SaveBeforeLoad /\ [][SwitchSavesFirst]_vars

\* a switch from a project with a non-empty library to another project has
\* issued its load request
C2_Witness ==
  \E t \in tasks :
    /\ t.kind = "switchProject" /\ t.pc = "switchLoad"
    /\ t.from # NoProject /\ t.pid # t.from
    /\ Len(t.log) = 2
    /\ t.log[1].body.media_bin # StringifyBin(<<>>)

NextEdit ==
  \/ /\ Len(mediaBin) < MaxEntries
     /\ nextFileId <= MaxFileId
     /\ addMediaFile([id |-> <<"file", nextFileId>>, filename |-> "f0", url |-> "a0",
                      mediaType |-> "video", description |-> "desc"])
  \/ /\ Len(mediaBin) < MaxEntries
     /\ addEditedMediaToLibrary("a1", "f0", "video")
  \/ /\ Len(messages) < MaxEditMessages
     /\ InjectAnalysis(FALSE)
  \/ /\ Len(messages) + 2 <= MaxEditMessages
     /\ \A t \in tasks : t.kind # "edit"
     /\ handleSend
  \/ \E t \in tasks, outcome \in {"url", "text", "fail"} : EditResponded(t, outcome, "a1")
  \/ clearChat
  \/ logout
  \/ /\ now < MaxNow
     /\ Tick

SpecEdit == InitLoggedOut /\ [][NextEdit]_vars

\* a step completes a call of handleSend
EditAnswered == \E t \in tasks : t.kind = "edit" /\ t \notin tasks'

\* the call of handleSend that the step completes
Answered == CHOOSE t \in tasks : t.kind = "edit" /\ t \notin tasks'

ResolveEditStep ==
  (EditAnswered /\ lastOp'.arg # NoUrl)
    => /\ UNCHANGED <<mediaBin, activeVideoId, activeAudioId>>
       /\ Len(messages') = Len(messages)
       /\ \A i \in 1..Len(messages) :
            IF messages[i].id = Answered.mid
            THEN messages'[i] = [messages[i] EXCEPT !.content = "final",
                                                    !.status = "completed",
                                                    !.videoUrl = lastOp'.arg,
                                                    !.timestamp = messages'[i].timestamp]
            ELSE messages'[i] = messages[i]

\* the library grows only by an upload or by the promotion of a result
OnlyPromotionAdds ==
  Len(mediaBin') > Len(mediaBin)
    => lastOp'.op \in {"addMediaFile", "addEditedMediaToLibrary"}

\* C11: resolveEdit changes the message with the given id only (final text,
\* status completed, result url) and leaves the library as it is: no url, no
\* stack and no entry changes; a result enters the library by promotion only.
C11_ResolveEditFrame == [][ResolveEditStep /\ OnlyPromotionAdds]_vars

\* an edit command on an entry of the library was answered with a result
C11_Witness ==
  /\ lastOp.op = "editResponded" /\ lastOp.arg # NoUrl
  /\ FindIdx(mediaBin, lastOp.id) # 0
  /\ \E i \in 1..Len(messages) :
       messages[i].videoUrl = lastOp.arg /\ messages[i].status = "completed"

\* a message that stays in its place keeps its status or goes from pending
\* to completed or error
StatusStep ==
  \A i \in 1..Len(messages) :
    (i <= Len(messages') /\ messages'[i].id = messages[i].id)
      => \/ messages'[i].status = messages[i].status
         \/ /\ messages[i].status = "pending"
            /\ messages'[i].status \in {"completed", "error"}

\* C12: the status of a message only ever goes from pending to completed or
\* from pending to error; completed and error are final, and a message
\* without a status never gets one.
C12_StatusMachine == [][StatusStep]_vars

\* the placeholder of the answered command: the last message with its id
Placeholder ==
  CHOOSE i \in WithId(messages, Answered.mid) :
    \A j \in WithId(messages, Answered.mid) : j <= i

FailedEditStep ==
  (EditAnswered /\ ~lastOp'.done)
    => /\ UNCHANGED <<mediaBin, activeVideoId, activeAudioId>>
       /\ Len(messages') = Len(messages)
       /\ WithId(messages, Answered.mid) # {}
            => /\ messages'[Placeholder].status = "error"
               /\ messages'[Placeholder].content = "apology"
               /\ \A i \in 1..Len(messages) :
                    i # Placeholder => messages'[i] = messages[i]
       /\ \A i \in 1..Len(messages') :
            messages'[i].id = Answered.mid => messages'[i].status # "pending"

\* C13: when an edit command fails, its pending placeholder goes to status
\* error with the apology text, no other message changes, the library and the
\* selection are as before, and no placeholder of the command stays pending.
C13_FailedEdit == [][FailedEditStep]_vars

PatchStep ==
  EditAnswered
    => /\ Len(messages') = Len(messages)
       /\ \A i \in 1..Len(messages) :
            /\ messages'[i].id = messages[i].id
            /\ messages'[i].role = messages[i].role
            /\ messages'[i].timestamp = messages[i].timestamp
       /\ WithId(messages, Answered.mid) = {} => messages' = messages

\* C14: a patch or resolveEdit keeps the id, the role and the creation
\* timestamp of the message it is applied to, and a patch whose id matches no
\* message leaves the thread as it is.
C14_PatchFrame == [][PatchStep]_vars

\* ------------------------------------------------- the remote project store
\* A signed-in session with at most MaxCalls calls in flight: the project
\* operations, the handlers of the projects dialog (rename, delete), the
\* store's deleteProject, and a library of one entry and a chat to save.
NextRemote ==
  \/ /\ user = NoUser
     /\ login(UserEmail, UserToken)
  \/ /\ Cardinality(tasks) < MaxCalls
     /\ loadProjects
  \/ /\ Cardinality(tasks) < MaxCalls
     /\ handleCreateProject
  \/ \E i \in 1..Len(projects) :
       /\ Cardinality(tasks) < MaxCalls
       /\ switchProject(projects[i])
  \/ /\ Cardinality(tasks) < MaxCalls
     /\ saveCurrentProject
  \/ /\ Len(mediaBin) < 1
     /\ nextFileId <= MaxFileId
     /\ addMediaFile([id |-> <<"file", nextFileId>>, filename |-> "f0", url |-> "a0",
                      mediaType |-> "video", description |-> "desc"])
  \/ \E id \in Ids(mediaBin) :
       /\ Cardinality(tasks) < MaxCalls
       /\ deleteMediaFile(id)
  \/ /\ Cardinality(tasks) < MaxCalls
     /\ clearChat
  \/ \E i \in 1..Len(projects) :
       /\ Cardinality(tasks) < MaxCalls
       /\ handleRenameProject(projects[i])
  \/ \E i \in 1..Len(projects) :
       /\ Cardinality(tasks) < MaxCalls
       /\ deleteProject(projects[i])
  \/ \E i \in 1..Len(projects) :
       /\ Cardinality(tasks) < MaxCalls
       /\ handleDeleteProject(projects[i])
  \/ \E t \in tasks : ServerHandles(t)
  \/ \E t \in tasks : SaveResponded(t)
  \/ \E t \in tasks : SwitchSaved(t)
  \/ \E t \in tasks : SwitchLoaded(t)
  \/ \E t \in tasks : ProjectsListed(t)
  \/ \E t \in tasks : ProjectCreated(t)
  \/ \E t \in tasks : SavedVideosLoaded(t)
  \/ \E t \in tasks : RenameResponded(t)
  \/ \E t \in tasks : DeleteResponded(t)
  \/ \E t \in tasks : HandleDeleteResponded(t)
  \/ \E t \in tasks, st \in {"notok", "error"} : RequestFails(t, st)

SpecRemote == InitLoggedOut /\ [][NextRemote]_vars

\* the calls a step starts or moves on to their next request
NewCalls == {t \in tasks' : t.resp.st = "sent" /\ t \notin tasks}

\* the request of the call is the one saveCurrentProject issues
FromSave(t) == t.pc \in {"put", "switchSave"}

\* every request in flight that writes a project resource comes from
\* saveCurrentProject
OnlySaveWrites == \A t \in tasks : t.req.method = "PUT" => FromSave(t)

\* saveCurrentProject with no current project issues no request
NoProjectNoRequest ==
  (lastOp'.op = "saveCurrentProject" /\ currentProject = NoProject) => NewCalls = {}

\* a mutation of the library that is not a delete issues no request
LocalStaysLocal ==
  lastOp'.op = "addMediaFile" => NewCalls = {}

\* C16: saveCurrentProject is the only remote write path: a request that
\* writes a project resource comes from saveCurrentProject, which issues
\* none when no project is current, and the local mutations issue none.
C16_OnlyWritePath == []OnlySaveWrites /\ [][NoProjectNoRequest /\ LocalStaysLocal]_vars

\* the two parts of C16 about saveCurrentProject and the local mutations
C16_LocalParts == [][NoProjectNoRequest /\ LocalStaysLocal]_vars

\* the delete request of the call `t`, one of `kinds`, has been answered and
\* the call goes on in this step
DeleteReturns(t, kinds) ==
  t.kind \in kinds /\ t.pc = "delete" /\ t.resp.st # "sent" /\ t \notin tasks'

\* what a delete of a project leaves when its request has been answered
DeleteLeaves(kinds) ==
  \A t \in tasks :
    DeleteReturns(t, kinds)
      => IF t.resp.st = "ok"
         THEN /\ ~server'.db[t.pid].exists
              /\ projects' = Without(projects, t.pid)
              /\ currentProject' = IF currentProject = t.pid THEN NoProject
                                    ELSE currentProject
         ELSE projects' = projects /\ currentProject' = currentProject

\* C20: a delete of a project that succeeds remotely takes the project off
\* the list and, if it was current, leaves no current project; another current
\* project stays, and a failed delete changes neither list nor current project.
C20_DeleteProject == [][DeleteLeaves({"deleteProject", "handleDeleteProject"})]_vars

\* the same for the store's deleteProject alone
C20_StoreDeleteProject == [][DeleteLeaves({"deleteProject"})]_vars

\* a save request issued in a step carries a text of the library and a
\* text of the chat that parse back to the library and the chat it saves
SavedAsIs ==
  \A t \in NewCalls :
    (t.req.method = "PUT" /\ t.req.body # NameBody)
      => /\ t.req.pid = currentProject
         /\ ParseBin(t.req.body.media_bin) = mediaBin'
         /\ ParseChat(t.req.body.chat_history) = messages'

\* the backend keeps the texts of a save as they are and answers a load
\* with the texts it keeps
KeptAsIs ==
  \A t \in tasks :
    \A u \in tasks' :
      (t.resp.st = "sent" /\ u.resp.st = "ok" /\ u = [t EXCEPT !.resp = u.resp])
        => /\ (t.req.method = "PUT" /\ t.req.body # NameBody)
                => /\ server'.db[t.req.pid].media_bin = t.req.body.media_bin
                   /\ server'.db[t.req.pid].chat_history = t.req.body.chat_history
           /\ t.req.method = "GET"
                => /\ u.resp.body.media_bin = server.db[t.req.pid].media_bin
                   /\ u.resp.body.chat_history = server.db[t.req.pid].chat_history
                   /\ server' = server

\* a load installs the library and the chat its texts parse to (the welcome
\* message for an empty chat); saving them again would give the same texts
LoadedAsIs ==
  \A t \in tasks :
    (t.pc = "switchLoad" /\ t.resp.st = "ok" /\ t \notin tasks')
      => /\ currentProject' = t.req.pid
         /\ mediaBin' = ParseBin(t.resp.body.media_bin)
         /\ t.resp.body.media_bin # EmptyText
              => StringifyBin(mediaBin') = t.resp.body.media_bin
         /\ IF Len(ParseChat(t.resp.body.chat_history)) > 0
            THEN /\ messages' = ParseChat(t.resp.body.chat_history)
                 /\ StringifyChat(messages') = t.resp.body.chat_history
            ELSE messages' = <<WelcomeMessage>>

NoSaveAfterDelete ==
  \A t \in NewCalls :
    (t.req.method = "PUT" /\ t.req.body # NameBody) => server.db[t.req.pid].exists

\* C26: a save request writes the library and chat in memory to the project
\* that is current, the project they were loaded from or built under, and
\* none is issued for a project whose remote deletion has succeeded.
C26_SaveTargets == [][SavedAsIs /\ NoSaveAfterDelete]_vars

\* the part of C26 about the snapshot a save request carries
C26_SnapshotOfCurrent == [][SavedAsIs]_vars

\* ---------------------------------------------------- edits around a switch
\* Projects created and switched, one call at a time, and uploads at any
\* moment, also while a switch waits for its save or its load. Every save
\* is the save of a switch, so the log of a call holds the saves issued for
\* the project it leaves.
NextSwitch ==
  \/ /\ user = NoUser
     /\ login(UserEmail, UserToken)
  \/ /\ Cardinality(tasks) < MaxCalls
     /\ handleCreateProject
  \/ \E i \in 1..Len(projects) :
       /\ Cardinality(tasks) < MaxCalls
       /\ switchProject(projects[i])
  \/ /\ Len(mediaBin) < MaxEntries
     /\ nextFileId <= MaxFileId
     /\ addMediaFile([id |-> <<"file", nextFileId>>, filename |-> "f0", url |-> "a0",
                      mediaType |-> "video", description |-> "desc"])
  \/ \E t \in tasks : ServerHandles(t)
  \/ \E t \in tasks : ProjectCreated(t)
  \/ \E t \in tasks : SwitchSaved(t)
  \/ \E t \in tasks : SwitchLoaded(t)

SpecSwitch == InitLoggedOut /\ [][NextSwitch]_vars

\* the call `t` installs the project it has loaded in this step
Installs(t) == t.pc = "switchLoad" /\ t.resp.st = "ok" /\ t \notin tasks'

\* the library and chat a project switch replaces are those of a save
\* request the switch has issued for the project that is current
NoEditLost ==
  \A t \in tasks :
    (Installs(t) /\ currentProject # NoProject)
      => \E i \in Issued(t, "PUT") :
           /\ t.log[i].pid = currentProject
           /\ ParseBin(t.log[i].body.media_bin) = mediaBin
           /\ ParseChat(t.log[i].body.chat_history) = messages

\* C25: no edit is lost by a project switch: what has been done to the
\* library and chat of the current project, also while the switch was
\* waiting, is in a save request issued for it before the loaded project
\* replaces it.
C25_NoEditLost == [][NoEditLost]_vars

\* the part of C25 without edits during the switch: the state of the
\* moment of the call is in the save the switch issues
C25_SavedAtCall == [][SwitchSavesFirst]_vars

\* ------------------------------------------------------------------
\* overlapping switches: up to MaxTasks switchProject calls in flight.  A
\* call is made while the calls in flight hold the slots below its own, so
\* that among the calls in flight a lower slot is an earlier call.
\* ------------------------------------------------------------------
NextOverlap ==
  \/ /\ user = NoUser
     /\ login(UserEmail, UserToken)
  \/ /\ tasks = {}
     /\ handleCreateProject
  \/ \E i \in 1..Len(projects) :
       /\ Cardinality(tasks) < MaxTasks
       /\ \A u \in tasks : u.call < Cardinality(tasks)
       /\ switchProject(projects[i])
  \/ /\ Len(mediaBin) < MaxEntries
     /\ nextFileId <= MaxFileId
     /\ addMediaFile([id |-> <<"file", nextFileId>>, filename |-> "f0", url |-> "a0",
                      mediaType |-> "video", description |-> "desc"])
  \/ \E t \in tasks : ServerHandles(t)
  \/ \E t \in tasks : ProjectCreated(t)
  \/ \E t \in tasks : SwitchSaved(t)
  \/ \E t \in tasks : SwitchLoaded(t)

SpecOverlap == InitLoggedOut /\ [][NextOverlap]_vars

\* the switchProject call `t` is the earliest of those in flight with it, and
\* a call made after it has installed its project already
Overtaken(t) == t.kind = "switchProject" /\ t.call = 0 /\ currentProject # t.from

\* a call overtaken by a later one does not replace the project of that one
LastRequestWins ==
  \A t \in tasks :
    (Installs(t) /\ Overtaken(t)) => currentProject' = currentProject

\* what a call installs is the project, library and chat of one response
OneProjectInstalled ==
  \A t \in tasks :
    Installs(t)
      => /\ currentProject' = t.resp.pid
         /\ t.resp.pid = t.pid
         /\ mediaBin' = ParseBin(t.resp.body.media_bin)
         /\ messages' \in {ParseChat(t.resp.body.chat_history), <<WelcomeMessage>>}

\* C27: of overlapping switchProject calls the one requested last decides
\* the current project, library and chat, in whatever order the responses
\* arrive, and the three are always those of one project.
C27_LastRequestWins == [][LastRequestWins /\ OneProjectInstalled]_vars

\* the part of C27 that holds: the three are installed together from the
\* response for one project
C27_OneProject == [][OneProjectInstalled]_vars

\* ------------------------------------------------------------------
\* completions after logout
\* ------------------------------------------------------------------
\* a network operation completes in this step: its answer is delivered to
\* the handler, which runs on from its await
Completes(t) == t.resp.st # "sent" /\ t \notin tasks'

\* a completion in a logged-out session re-populates nothing
LogoutIsFinal ==
  (user = NoUser /\ \E t \in tasks : Completes(t))
    => /\ mediaBin' = mediaBin
       /\ messages' = messages
       /\ projects' = projects
       /\ currentProject' = currentProject

\* C28: logout is final for work in flight: the completion of a network
\* operation started before logout() does not re-populate the library, the
\* chat, the project list or the current project of the logged-out session.
C28_LogoutIsFinal == [][LogoutIsFinal]_vars

\* the part of C28 that holds: logout itself leaves the defaults
C28_LogoutDefaults ==
  [][(lastOp'.op = "logout" /\ lastOp' # lastOp)
       => /\ mediaBin' = <<>>
          /\ messages' = <<WelcomeMessage>>
          /\ projects' = <<>>
          /\ currentProject' = NoProject
          /\ user' = NoUser]_vars

\* ------------------------------------------------------------ concurrent saves
\* One project, created and opened, and up to MaxTasks saves of it in flight:
\* explicit saves and the autosave tick, and the saves of deleteMediaFile
\* and clearChat, around an upload.
NextSaves ==
  \/ /\ user = NoUser
     /\ login(UserEmail, UserToken)
  \/ /\ Len(projects) < 1
     /\ tasks = {}
     /\ handleCreateProject
  \/ /\ Cardinality(tasks) < MaxTasks
     /\ saveCurrentProject
  \/ /\ Len(mediaBin) < 1
     /\ nextFileId <= MaxFileId
     /\ addMediaFile([id |-> <<"file", nextFileId>>, filename |-> "f0", url |-> "a0",
                      mediaType |-> "video", description |-> "desc"])
  \/ \E id \in Ids(mediaBin) :
       /\ Cardinality(tasks) < MaxTasks
       /\ deleteMediaFile(id)
  \/ /\ Cardinality(tasks) < MaxTasks
     /\ clearChat
  \/ \E t \in tasks : ServerHandles(t)
  \/ \E t \in tasks : SaveResponded(t)
  \/ \E t \in tasks : SwitchLoaded(t)
  \/ \E t \in tasks : ProjectCreated(t)

SpecSaves == InitLoggedOut /\ [][NextSaves]_vars

\* the backend handles the save `t` in this step
SaveHandled(t) ==
  /\ t.kind = "save" /\ t.resp.st = "sent"
  /\ t \notin tasks'
  /\ \E u \in tasks' : u.call = t.call /\ u.req = t.req /\ u.resp.st = "ok"

\* a save started while others are in flight is issued at once, with the
\* library and chat of that moment, and leaves the others in flight
SaveNotBlocked ==
  (lastOp'.op = "saveCurrentProject" /\ lastOp'.done /\ tasks \subseteq tasks')
    => \E t \in tasks' \ tasks :
         /\ tasks' = tasks \cup {t}
         /\ t.kind = "save" /\ t.resp.st = "sent" /\ t.req = SaveRequest

\* a save in flight stays in flight until the backend handles it
SaveNotCancelled ==
  \A t \in tasks : (t.kind = "save" /\ t.resp.st = "sent") => t \in tasks' \/ SaveHandled(t)

\* the blobs of a project are those of the save the backend handled last
LastWriteWins ==
  /\ \A t \in tasks :
       SaveHandled(t)
         => /\ server'.db[t.req.pid].media_bin = t.req.body.media_bin
            /\ server'.db[t.req.pid].chat_history = t.req.body.chat_history
  /\ \A p \in 1..MaxProjects :
       (server.db[p].exists /\ server'.db[p] # server.db[p])
         => \E t \in tasks : SaveHandled(t) /\ t.req.pid = p

\* C17: concurrent saves are last-write-wins: a save is issued while another
\* is in flight, none is cancelled, and the remote blobs are the snapshot of
\* the save that completed last, whichever started first.
C17_LastWriteWins == [][SaveNotBlocked /\ SaveNotCancelled /\ LastWriteWins]_vars

\* two saves have completed, the one with the library after the delete
\* first: the remote library is the older one, with the deleted entry
C17_Witness ==
  /\ currentProject # NoProject
  /\ mediaBin = <<>>
  /\ nextFileId = 2
  /\ server.db[currentProject].media_bin # StringifyBin(<<>>)
  /\ \E t1, t2 \in tasks :
       /\ t1.kind = "save" /\ t1.resp.st = "ok" /\ t1.req.pid = currentProject
       /\ t2.kind = "save" /\ t2.resp.st = "ok" /\ t2.req.pid = currentProject
       /\ t1.req.body.media_bin = StringifyBin(<<>>)
       /\ t2.req.body.media_bin = server.db[currentProject].media_bin

\* the step is a call of `op` that issues a save
SavingStep(op) == lastOp'.op = op /\ SaveIssues /\ tasks \subseteq tasks'

\* the save a step issues
IssuedSave == CHOOSE t \in tasks' \ tasks : t.kind = "save"

\* deleteMediaFile removes the entry, then saves the library without it
DeleteThenSave ==
  SavingStep("deleteMediaFile")
    => /\ lastOp'.id \notin Ids(mediaBin')
       /\ \E t \in tasks' \ tasks : t.kind = "save" /\ tasks' = tasks \cup {t}
       /\ IssuedSave.resp.st = "sent"
       /\ IssuedSave.req =
            Req("PUT", currentProject,
                [media_bin |-> StringifyBin(mediaBin'),
                 chat_history |-> StringifyChat(messages)])

\* clearChat empties the thread, then saves the empty thread
ClearThenSave ==
  SavingStep("clearChat")
    => /\ messages' = <<>>
       /\ \E t \in tasks' \ tasks : t.kind = "save" /\ tasks' = tasks \cup {t}
       /\ IssuedSave.resp.st = "sent"
       /\ IssuedSave.req =
            Req("PUT", currentProject,
                [media_bin |-> StringifyBin(mediaBin),
                 chat_history |-> StringifyChat(<<>>)])

\* C19: deleteMediaFile and clearChat mutate first and save second: with a
\* current project, the save they issue carries the library without the
\* entry, or the empty chat thread.
C19_MutateThenSave == [][DeleteThenSave /\ ClearThenSave]_vars

\* the save of a delete is in flight with the library without the entry,
\* and the remote library still holds it
C19_Witness ==
  /\ lastOp.op = "deleteMediaFile"
  /\ lastOp.id = <<"file", 1>>
  /\ currentProject # NoProject
  /\ server.db[currentProject].media_bin \notin {EmptyText, StringifyBin(<<>>)}
  /\ \E t \in tasks :
       /\ t.kind = "save" /\ t.resp.st = "sent"
       /\ ParseBin(t.req.body.media_bin) = <<>>

\* ------------------------------------------------------- the default project
\* A sign-in and up to MaxTasks overlapping calls of loadProjects (the effect
\* of AppLayout runs it whenever `user` is set).
NextLoad ==
  \/ /\ user = NoUser
     /\ login(UserEmail, UserToken)
  \/ /\ Cardinality(tasks) < MaxTasks
     /\ loadProjects
  \/ \E t \in tasks : ServerHandles(t)
  \/ \E t \in tasks : ProjectsListed(t)
  \/ \E t \in tasks : ProjectCreated(t)
  \/ \E t \in tasks : SwitchLoaded(t)
  \/ \E t \in tasks : SavedVideosLoaded(t)

SpecLoad == InitLoggedOut /\ [][NextLoad]_vars

\* a call of loadProjects has just returned
LoadReturned == lastOp.op = "savedVideosLoaded"

\* when loadProjects has returned the session lists at least one project
SomeProjectListed == LoadReturned => Len(projects) >= 1

\* C18: loadProjects of an owner with no remote project creates exactly one
\* default project: when it has returned one project exists and the session
\* lists it, also when calls of loadProjects overlap.
C18_OneDefaultProject ==
  LoadReturned => Len(projects) = 1 /\ ExistingProjects = projects

\* ------------------------------------------------------------- the player
\* Two uploads with a second version each, the selection, previews of a
\* version from the chat, and the player's own play, pause and seek.
NextPlayback ==
  \/ \E type \in MediaTypes :
       /\ Len(mediaBin) < MaxEntries
       /\ nextFileId <= MaxFileId
       /\ addMediaFile([id |-> <<"file", nextFileId>>, filename |-> "f0", url |-> "a0",
                        mediaType |-> type, description |-> ""])
  \/ \E id \in Ids(mediaBin) : setActiveVideoId(id)
  \/ \E id \in Ids(mediaBin) : setActiveAudioId(id)
  \/ \E id \in Ids(mediaBin) :
       /\ Len(Find(mediaBin, id).versionHistory) < MaxLibVersions
       /\ appendVersion(id, "a1", NoMessageId)
  \/ \E u \in Urls :
       /\ activeVideoId # NULL
       /\ setActiveVideoVersion(activeVideoId, u)
  \/ \E u \in Urls : handlePreviewPlay(u)
  \/ \E u \in Urls, time \in 0..MaxTime : handlePreviewSeek(u, time)
  \/ \E playing \in BOOLEAN : setPlaybackState([isPlaying |-> playing])
  \/ \E time \in 0..MaxTime : setPlaybackState([currentTime |-> time])

SpecPlayback == InitLoggedOut /\ [][NextPlayback]_vars

\* the step shows other media in a player: another entry selected, or
\* another version of the active entry previewed
Redirects ==
  \/ /\ lastOp'.op = "setActiveVideoId"
     /\ activeVideoId' # activeVideoId
  \/ /\ lastOp'.op = "setActiveAudioId"
     /\ activeAudioId' # activeAudioId
  \/ /\ lastOp'.op \in {"setActiveVideoVersion", "handlePreviewPlay", "handlePreviewSeek"}
     /\ mediaBin' # mediaBin

\* what a redirection carries over from the media shown before: nothing
\* (a preview handler may start the new media, or seek in it, by itself)
NothingCarriedOver ==
  /\ lastOp'.op # "handlePreviewPlay" => ~playbackState'.isPlaying
  /\ lastOp'.op # "handlePreviewSeek" => playbackState'.currentTime = 0

\* C21: selecting another entry or previewing another version of the active
\* entry resets the playback state: it is not left playing, nor at a
\* position other than 0, from the media shown before.
C21_RedirectResets == [][Redirects => NothingCarriedOver]_vars

\* the part of C21 about previews
C21_PreviewResets == [][(Redirects /\ mediaBin' # mediaBin) => NothingCarriedOver]_vars

\* ------------------------------------------------------------- cold starts
\* Sign-in and sign-out, uploads, and reloads of the page with the
\* restoration that follows, from every content of localStorage.
NextAuth ==
  \/ restoreFromDurableStorage
  \/ \E logoutThrows \in BOOLEAN : restoreReadFails(logoutThrows)
  \/ /\ authStatus = "unauthenticated"
     /\ login(UserEmail, UserToken)
  \/ logout
  \/ restart
  \/ /\ Len(mediaBin) < MaxEntries
     /\ nextFileId <= MaxFileId
     /\ addMediaFile([id |-> <<"file", nextFileId>>, filename |-> "f0", url |-> "a0",
                      mediaType |-> "video", description |-> "desc"])

SpecAuth == Init /\ [][NextAuth]_vars

\* both items are in localStorage
Stored == localStorage.token # NoToken /\ localStorage.userEmail # NoUser

\* what the restoration leaves: authenticated as the stored identity exactly
\* when both items are stored, logged out when reading fails, never 'loading'
RestoreStep ==
  (authStatus = "loading" /\ lastOp'.op \in {"restore", "restoreReadFails"})
    => /\ authStatus' # "loading"
       /\ lastOp'.op = "restore"
            => IF Stored
               THEN /\ authStatus' = "authenticated" /\ isAuthenticated'
                    /\ user' = localStorage.userEmail /\ token' = localStorage.token
               ELSE /\ authStatus' = "unauthenticated" /\ ~isAuthenticated'
                    /\ user' = NoUser
       /\ lastOp'.op = "restoreReadFails"
            => /\ authStatus' = "unauthenticated" /\ ~isAuthenticated'
               /\ user' = NoUser /\ token' = NoToken

\* login stores the identity it signs in, logout removes it, and a reload
\* keeps what is stored
StorageStep ==
  /\ lastOp'.op = "login"
       => localStorage' = [token |-> token', userEmail |-> user'] /\ user' # NoUser
  /\ lastOp'.op = "logout" => localStorage' = [token |-> NoToken, userEmail |-> NoUser]
  /\ lastOp'.op = "restart" => localStorage' = localStorage

\* C23: the restoration at a cold start signs the session in exactly when
\* token and identity are both stored, a failure to read the storage ends
\* logged out, the status never stays 'loading', and so a login or a logout
\* survives a restart.
C23_ColdStart == [][RestoreStep /\ StorageStep]_vars

\* C23 where localStorage can be read
C23_ReadableStorage ==
  [][(lastOp'.op # "restoreReadFails") => (RestoreStep /\ StorageStep)]_vars

\* ------------------------------------------------------- the whole program
\* every operation, each within the bounds of the part it belongs to
Next ==
  NextVersions \/ NextLibrary \/ NextChat \/ NextProject \/ NextRemote \/ NextEdit \/ NextSaves
    \/ NextLoad \/ NextPlayback \/ NextAuth \/ NextSwitch \/ NextOverlap \/ NextIds

Spec == Init /\ [][Next]_vars

====
